---- MODULE Spec2Model ----
(***************************************************************************)
(* Contributor registry contract (contributor_registry/src/lib.rs).        *)
(*                                                                         *)
(* The contract is a set of call handlers over two key-value stores        *)
(* (instance storage holding DataKey::Admin, persistent storage holding    *)
(* DataKey::Contributor(address) and DataKey::GitHubIndex(handle)), the    *)
(* event sink and the deployer.  Each handler is an operator that walks    *)
(* the handler's code top to bottom and yields the result of the call      *)
(* together with the store writes the code performed up to its return, in  *)
(* program order.  An action is one call: it applies those writes.  No     *)
(* rollback of a failed call is modelled, so a write placed before a       *)
(* failing check would be visible in the next state.  A handler takes the  *)
(* environment (env: Env in the source) as its first parameter, so that a  *)
(* property can run a handler on the state another call leaves behind.     *)
(***************************************************************************)
EXTENDS Integers, Sequences, FiniteSets, TLC

\* ------------------------------------------------------------------ bounds
\* Width in bits of the reputation score (u64 in the source) and of the
\* delta (i64 in the source); the model keeps both widths equal and small.
ScoreBits == 2
\* Largest ledger timestamp the model lets the clock reach.
MaxTime == 1

RECURSIVE Pow2(_)
Pow2(n) == IF n = 0 THEN 1 ELSE 2 * Pow2(n - 1)

U64_MAX == Pow2(ScoreBits) - 1
I64_MAX == Pow2(ScoreBits - 1) - 1
I64_MIN == 0 - Pow2(ScoreBits - 1)

Addresses == {"GA", "GB"}
Handles == {"", "alice", "bob"}
WasmHashes == {"w1", "w2"}
Deltas == I64_MIN .. I64_MAX

\* ------------------------------------------------------------------- state
VARIABLES
  instance,     \* instance storage: DataKey -> value, DOMAIN \subseteq {Admin}
  persistent,   \* persistent storage: DataKey -> value
  events,       \* events the latest call published, in order
  wasm,         \* code hash the deployer was last asked to install
  timestamp     \* ledger timestamp of the latest call

vars == <<instance, persistent, events, wasm, timestamp>>

\* Env as a call at ledger time `now` sees it: the call has published no
\* event yet
Env(now) ==
  [instance |-> instance, persistent |-> persistent, events |-> <<>>,
   wasm |-> wasm, timestamp |-> now]

\* DataKey (storage.rs, used throughout lib.rs)
Admin == <<"Admin">>
Contributor(address) == <<"Contributor", address>>
GitHubIndex(github_handle) == <<"GitHubIndex", github_handle>>

\* Option<T>: None is <<>>, Some(v) is <<v>>
None == <<>>
Some(v) == <<v>>

\* storage().get / .has
get(store, key) == IF key \in DOMAIN store THEN Some(store[key]) ELSE None
has(store, key) == key \in DOMAIN store

\* ContributorData as built at registration
ContributorData(address, github_handle, reputation_score, registered_timestamp) ==
  [address |-> address, github_handle |-> github_handle,
   reputation_score |-> reputation_score,
   registered_timestamp |-> registered_timestamp]

\* ------------------------------------------------------------------ writes
SetWrite(store, key, val) == [store |-> store, op |-> "set", key |-> key, val |-> Some(val)]
RemoveWrite(store, key) == [store |-> store, op |-> "remove", key |-> key, val |-> None]
PublishWrite(event) == [store |-> "events", op |-> "publish", key |-> <<>>, val |-> Some(event)]
UpdateWasmWrite(hash) == [store |-> "deployer", op |-> "update_current_contract_wasm", key |-> <<>>, val |-> Some(hash)]

AdminChangedEvent(old_admin, new_admin) ==
  [name |-> "AdminChanged", old_admin |-> old_admin, new_admin |-> new_admin]
UpgradedEvent(admin, new_wasm_hash) ==
  [name |-> "Upgraded", admin |-> admin, new_wasm_hash |-> new_wasm_hash]

\* storage().set / .remove on one store
StoreSet(store, key, val) ==
  [k \in (DOMAIN store) \cup {key} |-> IF k = key THEN val ELSE store[k]]
StoreRemove(store, key) ==
  [k \in (DOMAIN store) \ {key} |-> store[k]]

ApplyToStore(name, store, w) ==
  IF w.store # name THEN store
  ELSE IF w.op = "set" THEN StoreSet(store, w.key, w.val[1])
  ELSE StoreRemove(store, w.key)

RECURSIVE ApplyWrites(_, _, _)
ApplyWrites(name, store, writes) ==
  IF writes = <<>> THEN store
  ELSE ApplyWrites(name, ApplyToStore(name, store, Head(writes)), Tail(writes))

RECURSIVE Published(_)
Published(writes) ==
  IF writes = <<>> THEN <<>>
  ELSE IF Head(writes).op = "publish"
       THEN <<Head(writes).val[1]>> \o Published(Tail(writes))
       ELSE Published(Tail(writes))

RECURSIVE Installed(_, _)
Installed(current, writes) ==
  IF writes = <<>> THEN current
  ELSE IF Head(writes).op = "update_current_contract_wasm"
       THEN Installed(Head(writes).val[1], Tail(writes))
       ELSE Installed(current, Tail(writes))

\* --------------------------------------------------------- handler results
Err(e, writes) == [result |-> e, ret |-> None, writes |-> writes]
Ok(ret, writes) == [result |-> "Ok", ret |-> ret, writes |-> writes]
\* require_auth() that the authorization oracle refuses traps the call
AuthTrap(writes) == [result |-> "AuthTrap", ret |-> None, writes |-> writes]

\* ---------------------------------------------------------------- handlers
\* Variant: the index is never consulted.
ensure_github_handle_available_unchecked(env, github_handle, address) ==
  "Ok"

ensure_github_handle_available(env, github_handle, address) ==
  LET existing_address == get(env.persistent, GitHubIndex(github_handle)) IN
  IF existing_address # None /\ existing_address[1] # address
  THEN "GitHubHandleTaken"
  ELSE "Ok"

\* Variant: the stored admin is not looked at before it is written.
initialize_unguarded(env, admin, authorized) ==
  IF ~authorized THEN AuthTrap(<<>>)
  ELSE Ok(None, <<SetWrite("instance", Admin, admin)>>)

initialize(env, admin, authorized) ==
  IF has(env.instance, Admin) THEN Err("AlreadyInitialized", <<>>)
  ELSE IF ~authorized THEN AuthTrap(<<>>)
  ELSE Ok(None, <<SetWrite("instance", Admin, admin)>>)

\* Variant: the profile is stored without its index entry.
register_contributor_without_index(env, address, github_handle, authorized) ==
  IF ~has(env.instance, Admin) THEN Err("NotInitialized", <<>>)
  ELSE IF ~authorized THEN AuthTrap(<<>>)
  ELSE IF github_handle = "" THEN Err("InvalidGitHubHandle", <<>>)
  ELSE IF has(env.persistent, Contributor(address)) THEN Err("ContributorAlreadyExists", <<>>)
  ELSE IF ensure_github_handle_available(env, github_handle, address) # "Ok"
       THEN Err(ensure_github_handle_available(env, github_handle, address), <<>>)
  ELSE Ok(None, <<SetWrite("persistent", Contributor(address),
                           ContributorData(address, github_handle, 0, env.timestamp))>>)

\* Variant: the existing profile is looked for before the handle is
\* checked for emptiness.
register_contributor_exists_first(env, address, github_handle, authorized) ==
  IF ~has(env.instance, Admin) THEN Err("NotInitialized", <<>>)
  ELSE IF ~authorized THEN AuthTrap(<<>>)
  ELSE IF has(env.persistent, Contributor(address)) THEN Err("ContributorAlreadyExists", <<>>)
  ELSE IF github_handle = "" THEN Err("InvalidGitHubHandle", <<>>)
  ELSE IF ensure_github_handle_available(env, github_handle, address) # "Ok"
       THEN Err(ensure_github_handle_available(env, github_handle, address), <<>>)
  ELSE Ok(None, <<SetWrite("persistent", Contributor(address),
                           ContributorData(address, github_handle, 0, env.timestamp)),
                  SetWrite("persistent", GitHubIndex(github_handle), address)>>)

\* Variant: an existing profile is not looked for and is overwritten.
register_contributor_overwrites(env, address, github_handle, authorized) ==
  IF ~has(env.instance, Admin) THEN Err("NotInitialized", <<>>)
  ELSE IF ~authorized THEN AuthTrap(<<>>)
  ELSE IF github_handle = "" THEN Err("InvalidGitHubHandle", <<>>)
  ELSE IF ensure_github_handle_available(env, github_handle, address) # "Ok"
       THEN Err(ensure_github_handle_available(env, github_handle, address), <<>>)
  ELSE Ok(None, <<SetWrite("persistent", Contributor(address),
                           ContributorData(address, github_handle, 0, env.timestamp)),
                  SetWrite("persistent", GitHubIndex(github_handle), address)>>)

register_contributor(env, address, github_handle, authorized) ==
  IF ~has(env.instance, Admin) THEN Err("NotInitialized", <<>>)
  ELSE IF ~authorized THEN AuthTrap(<<>>)
  ELSE IF github_handle = "" THEN Err("InvalidGitHubHandle", <<>>)
  ELSE IF has(env.persistent, Contributor(address)) THEN Err("ContributorAlreadyExists", <<>>)
  ELSE IF ensure_github_handle_available(env, github_handle, address) # "Ok"
       THEN Err(ensure_github_handle_available(env, github_handle, address), <<>>)
  ELSE LET timestamp_ == env.timestamp
           contributor == ContributorData(address, github_handle, 0, timestamp_)
       IN Ok(None, <<SetWrite("persistent", Contributor(address), contributor),
                  SetWrite("persistent", GitHubIndex(github_handle), address)>>)

\* Variant: the old index entry is never removed.
update_contributor_keeps_old_entry(env, address, github_handle, authorized) ==
  IF ~has(env.instance, Admin) THEN Err("NotInitialized", <<>>)
  ELSE IF ~authorized THEN AuthTrap(<<>>)
  ELSE IF github_handle = "" THEN Err("InvalidGitHubHandle", <<>>)
  ELSE IF get(env.persistent, Contributor(address)) = None THEN Err("ContributorNotFound", <<>>)
  ELSE IF ensure_github_handle_available(env, github_handle, address) # "Ok"
       THEN Err(ensure_github_handle_available(env, github_handle, address), <<>>)
  ELSE LET contributor == get(env.persistent, Contributor(address))[1]
           updated == [contributor EXCEPT !.github_handle = github_handle]
       IN Ok(None, <<SetWrite("persistent", Contributor(address), updated),
                     SetWrite("persistent", GitHubIndex(github_handle), address)>>)

\* Variant: the old index entry is removed before the availability check.
update_contributor_removes_first(env, address, github_handle, authorized) ==
  IF ~has(env.instance, Admin) THEN Err("NotInitialized", <<>>)
  ELSE IF ~authorized THEN AuthTrap(<<>>)
  ELSE IF github_handle = "" THEN Err("InvalidGitHubHandle", <<>>)
  ELSE IF get(env.persistent, Contributor(address)) = None THEN Err("ContributorNotFound", <<>>)
  ELSE LET contributor == get(env.persistent, Contributor(address))[1]
           removal == IF contributor.github_handle # github_handle
                      THEN <<RemoveWrite("persistent", GitHubIndex(contributor.github_handle))>>
                      ELSE <<>>
           updated == [contributor EXCEPT !.github_handle = github_handle]
       IN IF ensure_github_handle_available(env, github_handle, address) # "Ok"
          THEN Err(ensure_github_handle_available(env, github_handle, address), removal)
          ELSE Ok(None, removal \o
                        <<SetWrite("persistent", Contributor(address), updated),
                          SetWrite("persistent", GitHubIndex(github_handle), address)>>)

\* Variant: the old index entry is removed after the new one is written,
\* whether or not the handle changed.
update_contributor_removes_last(env, address, github_handle, authorized) ==
  IF ~has(env.instance, Admin) THEN Err("NotInitialized", <<>>)
  ELSE IF ~authorized THEN AuthTrap(<<>>)
  ELSE IF github_handle = "" THEN Err("InvalidGitHubHandle", <<>>)
  ELSE IF get(env.persistent, Contributor(address)) = None THEN Err("ContributorNotFound", <<>>)
  ELSE IF ensure_github_handle_available(env, github_handle, address) # "Ok"
       THEN Err(ensure_github_handle_available(env, github_handle, address), <<>>)
  ELSE LET contributor == get(env.persistent, Contributor(address))[1]
           updated == [contributor EXCEPT !.github_handle = github_handle]
       IN Ok(None, <<SetWrite("persistent", Contributor(address), updated),
                     SetWrite("persistent", GitHubIndex(github_handle), address),
                     RemoveWrite("persistent", GitHubIndex(contributor.github_handle))>>)

\* Variant: the handle is checked for emptiness before the stored admin is
\* looked for.
update_contributor_handle_first(env, address, github_handle, authorized) ==
  IF github_handle = "" THEN Err("InvalidGitHubHandle", <<>>)
  ELSE IF ~has(env.instance, Admin) THEN Err("NotInitialized", <<>>)
  ELSE IF ~authorized THEN AuthTrap(<<>>)
  ELSE IF get(env.persistent, Contributor(address)) = None THEN Err("ContributorNotFound", <<>>)
  ELSE IF ensure_github_handle_available(env, github_handle, address) # "Ok"
       THEN Err(ensure_github_handle_available(env, github_handle, address), <<>>)
  ELSE LET contributor == get(env.persistent, Contributor(address))[1]
           removal == IF contributor.github_handle # github_handle
                      THEN <<RemoveWrite("persistent", GitHubIndex(contributor.github_handle))>>
                      ELSE <<>>
           updated == [contributor EXCEPT !.github_handle = github_handle]
       IN Ok(None, removal \o
                   <<SetWrite("persistent", Contributor(address), updated),
                     SetWrite("persistent", GitHubIndex(github_handle), address)>>)

\* Variant: the profile is rebuilt as at registration, so the score starts
\* again from zero.
update_contributor_resets_score(env, address, github_handle, authorized) ==
  IF ~has(env.instance, Admin) THEN Err("NotInitialized", <<>>)
  ELSE IF ~authorized THEN AuthTrap(<<>>)
  ELSE IF github_handle = "" THEN Err("InvalidGitHubHandle", <<>>)
  ELSE IF get(env.persistent, Contributor(address)) = None THEN Err("ContributorNotFound", <<>>)
  ELSE IF ensure_github_handle_available(env, github_handle, address) # "Ok"
       THEN Err(ensure_github_handle_available(env, github_handle, address), <<>>)
  ELSE LET contributor == get(env.persistent, Contributor(address))[1]
           removal == IF contributor.github_handle # github_handle
                      THEN <<RemoveWrite("persistent", GitHubIndex(contributor.github_handle))>>
                      ELSE <<>>
           updated == [contributor EXCEPT !.github_handle = github_handle,
                                          !.reputation_score = 0]
       IN Ok(None, removal \o
                   <<SetWrite("persistent", Contributor(address), updated),
                     SetWrite("persistent", GitHubIndex(github_handle), address)>>)

\* Variant: the profile is looked up before the handle is checked for
\* emptiness.
update_contributor_lookup_first(env, address, github_handle, authorized) ==
  IF ~has(env.instance, Admin) THEN Err("NotInitialized", <<>>)
  ELSE IF ~authorized THEN AuthTrap(<<>>)
  ELSE IF get(env.persistent, Contributor(address)) = None THEN Err("ContributorNotFound", <<>>)
  ELSE IF github_handle = "" THEN Err("InvalidGitHubHandle", <<>>)
  ELSE IF ensure_github_handle_available(env, github_handle, address) # "Ok"
       THEN Err(ensure_github_handle_available(env, github_handle, address), <<>>)
  ELSE LET contributor == get(env.persistent, Contributor(address))[1]
           removal == IF contributor.github_handle # github_handle
                      THEN <<RemoveWrite("persistent", GitHubIndex(contributor.github_handle))>>
                      ELSE <<>>
           updated == [contributor EXCEPT !.github_handle = github_handle]
       IN Ok(None, removal \o
                   <<SetWrite("persistent", Contributor(address), updated),
                     SetWrite("persistent", GitHubIndex(github_handle), address)>>)

\* Variant: the old index entry is removed first whether or not the handle
\* changed.
update_contributor_always_removes(env, address, github_handle, authorized) ==
  IF ~has(env.instance, Admin) THEN Err("NotInitialized", <<>>)
  ELSE IF ~authorized THEN AuthTrap(<<>>)
  ELSE IF github_handle = "" THEN Err("InvalidGitHubHandle", <<>>)
  ELSE IF get(env.persistent, Contributor(address)) = None THEN Err("ContributorNotFound", <<>>)
  ELSE IF ensure_github_handle_available(env, github_handle, address) # "Ok"
       THEN Err(ensure_github_handle_available(env, github_handle, address), <<>>)
  ELSE LET contributor == get(env.persistent, Contributor(address))[1]
           updated == [contributor EXCEPT !.github_handle = github_handle]
       IN Ok(None, <<RemoveWrite("persistent", GitHubIndex(contributor.github_handle)),
                     SetWrite("persistent", Contributor(address), updated),
                     SetWrite("persistent", GitHubIndex(github_handle), address)>>)

update_contributor(env, address, github_handle, authorized) ==
  IF ~has(env.instance, Admin) THEN Err("NotInitialized", <<>>)
  ELSE IF ~authorized THEN AuthTrap(<<>>)
  ELSE IF github_handle = "" THEN Err("InvalidGitHubHandle", <<>>)
  ELSE IF get(env.persistent, Contributor(address)) = None THEN Err("ContributorNotFound", <<>>)
  ELSE IF ensure_github_handle_available(env, github_handle, address) # "Ok"
       THEN Err(ensure_github_handle_available(env, github_handle, address), <<>>)
  ELSE LET contributor == get(env.persistent, Contributor(address))[1]
           removal == IF contributor.github_handle # github_handle
                      THEN <<RemoveWrite("persistent", GitHubIndex(contributor.github_handle))>>
                      ELSE <<>>
           updated == [contributor EXCEPT !.github_handle = github_handle]
       IN Ok(None, removal \o
                   <<SetWrite("persistent", Contributor(address), updated),
                     SetWrite("persistent", GitHubIndex(github_handle), address)>>)

\* Variant: u64::wrapping_add
checked_add_wrapping(score, rhs) ==
  Some((score + rhs) % (U64_MAX + 1))

\* u64::checked_add: None when the sum leaves 0 .. U64_MAX
checked_add(score, rhs) ==
  IF score + rhs > U64_MAX THEN None ELSE Some(score + rhs)

\* Variant: i64::unsigned_abs, which has a value for I64_MIN too
checked_abs_unsigned(delta) ==
  IF delta < 0 THEN Some(0 - delta) ELSE Some(delta)

\* i64::checked_abs: None for I64_MIN, whose absolute value is not an i64
checked_abs(delta) ==
  IF delta = I64_MIN THEN None
  ELSE IF delta < 0 THEN Some(0 - delta) ELSE Some(delta)

\* u64::checked_sub: None when the difference is negative
checked_sub(score, rhs) ==
  IF rhs > score THEN None ELSE Some(score - rhs)

\* `x as u64` of an i64: the value modulo 2^ScoreBits
as_u64(x) == x % (U64_MAX + 1)

\* Option::unwrap_or_default for u64
unwrap_or_default(opt) == IF opt = None THEN 0 ELSE opt[1]

\* Variant: i64::saturating_abs, which takes I64_MAX for I64_MIN
new_score_saturating_abs(reputation_score, delta) ==
  IF delta > 0
  THEN checked_add(reputation_score, as_u64(delta))
  ELSE LET new_delta == IF checked_abs(delta) = None THEN as_u64(I64_MAX)
                        ELSE as_u64(checked_abs(delta)[1])
       IN Some(unwrap_or_default(checked_sub(reputation_score, new_delta)))

\* lines 141-155: Some(new_score), or None for ReputationOverflow
new_score(reputation_score, delta) ==
  IF delta > 0
  THEN checked_add(reputation_score, as_u64(delta))
  ELSE LET new_delta == IF checked_abs(delta) = None THEN 0
                        ELSE as_u64(checked_abs(delta)[1])
       IN Some(unwrap_or_default(checked_sub(reputation_score, new_delta)))

\* Variant: the profile is looked up before the caller is compared with the
\* stored admin.
update_reputation_lookup_first(env, admin, contributor_address, delta, authorized) ==
  LET stored_admin == get(env.instance, Admin) IN
  IF stored_admin = None THEN Err("NotInitialized", <<>>)
  ELSE IF get(env.persistent, Contributor(contributor_address)) = None
       THEN Err("ContributorNotFound", <<>>)
  ELSE IF admin # stored_admin[1] THEN Err("Unauthorized", <<>>)
  ELSE IF ~authorized THEN AuthTrap(<<>>)
  ELSE LET contributor == get(env.persistent, Contributor(contributor_address))[1]
           score == new_score(contributor.reputation_score, delta)
       IN IF score = None THEN Err("ReputationOverflow", <<>>)
          ELSE Ok(None, <<SetWrite("persistent", Contributor(contributor_address),
                                   [contributor EXCEPT !.reputation_score = score[1]])>>)

\* Variant: the caller is authenticated but not compared with the stored
\* admin.
update_reputation_no_admin_check(env, admin, contributor_address, delta, authorized) ==
  LET stored_admin == get(env.instance, Admin) IN
  IF stored_admin = None THEN Err("NotInitialized", <<>>)
  ELSE IF ~authorized THEN AuthTrap(<<>>)
  ELSE IF get(env.persistent, Contributor(contributor_address)) = None
       THEN Err("ContributorNotFound", <<>>)
  ELSE LET contributor == get(env.persistent, Contributor(contributor_address))[1]
           score == new_score(contributor.reputation_score, delta)
       IN IF score = None THEN Err("ReputationOverflow", <<>>)
          ELSE Ok(None, <<SetWrite("persistent", Contributor(contributor_address),
                                   [contributor EXCEPT !.reputation_score = score[1]])>>)

update_reputation(env, admin, contributor_address, delta, authorized) ==
  LET stored_admin == get(env.instance, Admin) IN
  IF stored_admin = None THEN Err("NotInitialized", <<>>)
  ELSE IF admin # stored_admin[1] THEN Err("Unauthorized", <<>>)
  ELSE IF ~authorized THEN AuthTrap(<<>>)
  ELSE IF get(env.persistent, Contributor(contributor_address)) = None
       THEN Err("ContributorNotFound", <<>>)
  ELSE LET contributor == get(env.persistent, Contributor(contributor_address))[1]
           score == new_score(contributor.reputation_score, delta)
       IN IF score = None THEN Err("ReputationOverflow", <<>>)
          ELSE Ok(None, <<SetWrite("persistent", Contributor(contributor_address),
                                   [contributor EXCEPT !.reputation_score = score[1]])>>)

get_contributor(env, address) ==
  IF get(env.persistent, Contributor(address)) = None THEN Err("ContributorNotFound", <<>>)
  ELSE Ok(get(env.persistent, Contributor(address)), <<>>)

get_reputation(env, contributor) ==
  LET contributor_data == get_contributor(env, contributor) IN
  IF contributor_data.result # "Ok" THEN contributor_data
  ELSE Ok(Some(contributor_data.ret[1].reputation_score), <<>>)

\* Variant: the profile the index names is unwrapped instead of looked up
\* with ok_or, so a missing profile panics.
get_contributor_by_github_unwrap(env, github_handle) ==
  LET contributor_address == get(env.persistent, GitHubIndex(github_handle)) IN
  IF contributor_address = None THEN Err("ContributorNotFound", <<>>)
  ELSE IF get(env.persistent, Contributor(contributor_address[1])) = None
       THEN [result |-> "Panic", ret |-> None, writes |-> <<>>]
  ELSE Ok(get(env.persistent, Contributor(contributor_address[1])), <<>>)

get_contributor_by_github(env, github_handle) ==
  LET contributor_address == get(env.persistent, GitHubIndex(github_handle)) IN
  IF contributor_address = None THEN Err("ContributorNotFound", <<>>)
  ELSE get_contributor(env, contributor_address[1])

get_admin(env) ==
  IF get(env.instance, Admin) = None THEN Err("NotInitialized", <<>>)
  ELSE Ok(get(env.instance, Admin), <<>>)

\* Variant: the event is published without the deployer being asked to
\* install the code.
upgrade_event_only(env, caller, new_wasm_hash, authorized) ==
  LET admin == get(env.instance, Admin) IN
  IF admin = None THEN Err("NotInitialized", <<>>)
  ELSE IF caller # admin[1] THEN Err("Unauthorized", <<>>)
  ELSE IF ~authorized THEN AuthTrap(<<>>)
  ELSE Ok(None, <<PublishWrite(UpgradedEvent(caller, new_wasm_hash))>>)

upgrade(env, caller, new_wasm_hash, authorized) ==
  LET admin == get(env.instance, Admin) IN
  IF admin = None THEN Err("NotInitialized", <<>>)
  ELSE IF caller # admin[1] THEN Err("Unauthorized", <<>>)
  ELSE IF ~authorized THEN AuthTrap(<<>>)
  ELSE Ok(None, <<UpdateWasmWrite(new_wasm_hash),
                  PublishWrite(UpgradedEvent(caller, new_wasm_hash))>>)

\* Variant: the caller is written back instead of new_admin.
set_admin_keeps_current(env, current_admin, new_admin, authorized) ==
  LET stored_admin == get(env.instance, Admin) IN
  IF stored_admin = None THEN Err("NotInitialized", <<>>)
  ELSE IF current_admin # stored_admin[1] THEN Err("Unauthorized", <<>>)
  ELSE IF ~authorized THEN AuthTrap(<<>>)
  ELSE Ok(None, <<SetWrite("instance", Admin, current_admin),
                  PublishWrite(AdminChangedEvent(current_admin, new_admin))>>)

set_admin(env, current_admin, new_admin, authorized) ==
  LET stored_admin == get(env.instance, Admin) IN
  IF stored_admin = None THEN Err("NotInitialized", <<>>)
  ELSE IF current_admin # stored_admin[1] THEN Err("Unauthorized", <<>>)
  ELSE IF ~authorized THEN AuthTrap(<<>>)
  ELSE Ok(None, <<SetWrite("instance", Admin, new_admin),
                  PublishWrite(AdminChangedEvent(current_admin, new_admin))>>)

\* --------------------------------------------------------- specification
\* The environment a call that performed `writes` leaves behind
After(env, writes) ==
  [instance |-> ApplyWrites("instance", env.instance, writes),
   persistent |-> ApplyWrites("persistent", env.persistent, writes),
   events |-> env.events \o Published(writes),
   wasm |-> Installed(env.wasm, writes),
   timestamp |-> env.timestamp]

Init ==
  /\ instance = <<>>
  /\ persistent = <<>>
  /\ events = <<>>
  /\ wasm = "w0"
  /\ timestamp = 0

\* One call, run to its return; its writes are applied in program order.
Commit(env, r) ==
  /\ instance' = ApplyWrites("instance", env.instance, r.writes)
  /\ persistent' = ApplyWrites("persistent", env.persistent, r.writes)
  /\ events' = env.events \o Published(r.writes)
  /\ wasm' = Installed(env.wasm, r.writes)
  /\ timestamp' = env.timestamp

\* The ledger timestamp never decreases from one call to the next.
Times == {t \in 0 .. MaxTime : t >= timestamp /\ t <= timestamp + 1}

Initialize ==
  \E admin \in Addresses, authorized \in BOOLEAN, now \in Times :
    Commit(Env(now), initialize(Env(now), admin, authorized))

RegisterContributor ==
  \E address \in Addresses, github_handle \in Handles,
     authorized \in BOOLEAN, now \in Times :
    Commit(Env(now), register_contributor(Env(now), address, github_handle, authorized))

UpdateContributor ==
  \E address \in Addresses, github_handle \in Handles,
     authorized \in BOOLEAN, now \in Times :
    Commit(Env(now), update_contributor(Env(now), address, github_handle, authorized))

UpdateReputation ==
  \E admin \in Addresses, contributor_address \in Addresses, delta \in Deltas,
     authorized \in BOOLEAN, now \in Times :
    Commit(Env(now), update_reputation(Env(now), admin, contributor_address, delta, authorized))

GetReputation ==
  \E contributor \in Addresses, now \in Times :
    Commit(Env(now), get_reputation(Env(now), contributor))

GetContributor ==
  \E address \in Addresses, now \in Times :
    Commit(Env(now), get_contributor(Env(now), address))

GetContributorByGithub ==
  \E github_handle \in Handles, now \in Times :
    Commit(Env(now), get_contributor_by_github(Env(now), github_handle))

GetAdmin ==
  \E now \in Times :
    Commit(Env(now), get_admin(Env(now)))

Upgrade ==
  \E caller \in Addresses, new_wasm_hash \in WasmHashes,
     authorized \in BOOLEAN, now \in Times :
    Commit(Env(now), upgrade(Env(now), caller, new_wasm_hash, authorized))

SetAdmin ==
  \E current_admin \in Addresses, new_admin \in Addresses,
     authorized \in BOOLEAN, now \in Times :
    Commit(Env(now), set_admin(Env(now), current_admin, new_admin, authorized))

Next ==
  \/ Initialize
  \/ RegisterContributor
  \/ UpdateContributor
  \/ UpdateReputation
  \/ GetReputation
  \/ GetContributor
  \/ GetContributorByGithub
  \/ GetAdmin
  \/ Upgrade
  \/ SetAdmin

Spec == Init /\ [][Next]_vars

\* ------------------------------------------------------------ observations
ProfileKeys(env) == {k \in DOMAIN env.persistent : k[1] = "Contributor"}
IndexKeys(env) == {k \in DOMAIN env.persistent : k[1] = "GitHubIndex"}
Profiles(env) == {a \in Addresses : has(env.persistent, Contributor(a))}
Score(env, a) == env.persistent[Contributor(a)].reputation_score
Handle(env, a) == env.persistent[Contributor(a)].github_handle
Abs(x) == IF x < 0 THEN 0 - x ELSE x
Max(x, y) == IF x > y THEN x ELSE y

\* ------------------------------------------------------------------ claims

\* C1: in every reachable state at most one profile exists per identity and
\* no two distinct identities' profiles hold the same github_handle.
C1_Uniqueness ==
  LET env == Env(timestamp) IN
  /\ \A a \in Addresses :
       Cardinality({k \in ProfileKeys(env) : env.persistent[k].address = a}) <= 1
  /\ \A k \in ProfileKeys(env) : env.persistent[k].address = k[2]
  /\ \A k1, k2 \in ProfileKeys(env) :
       k1 # k2 => env.persistent[k1].github_handle # env.persistent[k2].github_handle

\* Both identities are registered, each under its own handle.
C1_Witness ==
  /\ Cardinality(ProfileKeys(Env(timestamp))) = 2
  /\ Handle(Env(timestamp), "GA") = "bob"
  /\ Handle(Env(timestamp), "GB") = "alice"

\* C2: in every reachable state the GitHub index and the directory agree in
\* both directions: every profile's current handle is indexed to the profile's
\* identity, and every index entry h -> a has a profile of a whose current
\* handle is h.
C2_IndexConsistency ==
  LET env == Env(timestamp) IN
  /\ \A k \in ProfileKeys(env) :
       LET P == env.persistent[k] IN
       /\ has(env.persistent, GitHubIndex(P.github_handle))
       /\ env.persistent[GitHubIndex(P.github_handle)] = P.address
  /\ \A k \in IndexKeys(env) :
       LET a == env.persistent[k] IN
       /\ has(env.persistent, Contributor(a))
       /\ env.persistent[Contributor(a)].github_handle = k[2]

\* One profile, credited since its registration, whose handle alone is
\* indexed; changing its handle from there removes the old entry, writes the
\* new one and leaves a single index entry again.
C2_Witness ==
  LET env == Env(timestamp) IN
  /\ Profiles(env) = {"GA"}
  /\ Handle(env, "GA") = "bob"
  /\ Score(env, "GA") > 0
  /\ IndexKeys(env) = {GitHubIndex("bob")}
  /\ LET r == update_contributor(env, "GA", "alice", TRUE) IN
     /\ r.result = "Ok"
     /\ Head(r.writes) = RemoveWrite("persistent", GitHubIndex("bob"))
     /\ IndexKeys(After(env, r.writes)) = {GitHubIndex("alice")}

\* A call that does not return Ok performed no write, and the state after it
\* is the state before it.
LeavesStateAlone(env, r) ==
  r.result # "Ok" => (r.writes = <<>> /\ After(env, r.writes) = env)

\* C3: every call of a public operation that returns an error leaves the
\* admin, all profiles, all index entries and the published events as they
\* were before the call (no write precedes a failing check).
C3_ErrorsLeaveStateUnchanged ==
  \A now \in Times :
    LET env == Env(now) IN
    /\ \A a \in Addresses, auth \in BOOLEAN :
         LeavesStateAlone(env, initialize(env, a, auth))
    /\ \A a \in Addresses, h \in Handles, auth \in BOOLEAN :
         /\ LeavesStateAlone(env, register_contributor(env, a, h, auth))
         /\ LeavesStateAlone(env, update_contributor(env, a, h, auth))
    /\ \A a \in Addresses, t \in Addresses, d \in Deltas, auth \in BOOLEAN :
         LeavesStateAlone(env, update_reputation(env, a, t, d, auth))
    /\ \A a \in Addresses, w \in WasmHashes, auth \in BOOLEAN :
         LeavesStateAlone(env, upgrade(env, a, w, auth))
    /\ \A a \in Addresses, b \in Addresses, auth \in BOOLEAN :
         LeavesStateAlone(env, set_admin(env, a, b, auth))
    /\ \A a \in Addresses :
         /\ LeavesStateAlone(env, get_reputation(env, a))
         /\ LeavesStateAlone(env, get_contributor(env, a))
    /\ \A h \in Handles : LeavesStateAlone(env, get_contributor_by_github(env, h))
    /\ LeavesStateAlone(env, get_admin(env))

\* A state in which calls fail after the first checks have passed: a handle
\* taken by the other identity, and a score that a positive delta overflows.
C3_Witness ==
  LET env == Env(timestamp) IN
  /\ update_contributor(env, "GA", "bob", TRUE).result = "GitHubHandleTaken"
  /\ \E a \in Addresses :
       update_reputation(env, a, "GB", 1, TRUE).result = "ReputationOverflow"
  /\ register_contributor(env, "GA", "alice", TRUE).result = "ContributorAlreadyExists"
  /\ initialize(env, "GA", TRUE).result = "AlreadyInitialized"

\* C4: once initialized, update_reputation, set_admin and upgrade called with
\* a caller other than the stored admin fail with Unauthorized whatever the
\* other arguments are, write nothing and publish nothing.
C4_AuthorizationGating ==
  LET env == Env(timestamp) IN
    has(env.instance, Admin) =>
      \A caller \in Addresses \ {env.instance[Admin]}, auth \in BOOLEAN :
        /\ \A t \in Addresses, d \in Deltas :
             LET r == update_reputation(env, caller, t, d, auth) IN
             r.result = "Unauthorized" /\ r.writes = <<>> /\ After(env, r.writes) = env
        /\ \A b \in Addresses :
             LET r == set_admin(env, caller, b, auth) IN
             r.result = "Unauthorized" /\ r.writes = <<>> /\ After(env, r.writes) = env
        /\ \A w \in WasmHashes :
             LET r == upgrade(env, caller, w, auth) IN
             r.result = "Unauthorized" /\ r.writes = <<>> /\ After(env, r.writes) = env

\* Initialized with admin GA; GB, who is not the admin, calls with a target
\* that is not registered and with a delta that would overflow GA's score.
C4_Witness ==
  LET env == Env(timestamp) IN
  /\ get_admin(env).ret = Some("GA")
  /\ Profiles(env) = {"GA"}
  /\ Score(env, "GA") = U64_MAX
  /\ update_reputation(env, "GB", "GB", 1, TRUE).result = "Unauthorized"
  /\ update_reputation(env, "GB", "GA", 1, TRUE).result = "Unauthorized"
  /\ update_reputation(env, "GA", "GB", 1, TRUE).result = "ContributorNotFound"
  /\ update_reputation(env, "GA", "GA", 1, TRUE).result = "ReputationOverflow"

\* C5: update_reputation by the stored admin (whose authorization the call
\* carries) on an existing profile with score s and delta d > 0 succeeds with
\* new score s + d when s + d <= U64_MAX, and otherwise fails with
\* ReputationOverflow and leaves the score s.
C5_PositiveDelta ==
  LET env == Env(timestamp) IN
    has(env.instance, Admin) =>
      \A t \in Profiles(env), d \in Deltas :
        d > 0 =>
          LET r == update_reputation(env, env.instance[Admin], t, d, TRUE)
              s == Score(env, t)
              post == After(env, r.writes)
          IN IF s + d <= U64_MAX
             THEN r.result = "Ok" /\ Score(post, t) = s + d
             ELSE r.result = "ReputationOverflow" /\ Score(post, t) = s

\* A profile whose score has been raised to the maximum, so that the next
\* positive delta overflows, beside a profile a positive delta still fits.
C5_Witness ==
  LET env == Env(timestamp) IN
  /\ Profiles(env) = Addresses
  /\ Score(env, "GA") = U64_MAX
  /\ Score(env, "GB") = 1
  /\ update_reputation(env, env.instance[Admin], "GA", 1, TRUE).result = "ReputationOverflow"
  /\ update_reputation(env, env.instance[Admin], "GB", 1, TRUE).result = "Ok"

\* C6 as stated: update_reputation by the stored admin on an existing profile
\* with score s and any delta d <= 0, I64_MIN included, succeeds with new
\* score max(0, s - |d|).
C6_Original ==
  LET env == Env(timestamp) IN
    has(env.instance, Admin) =>
      \A t \in Profiles(env), d \in Deltas :
        d <= 0 =>
          LET r == update_reputation(env, env.instance[Admin], t, d, TRUE)
              post == After(env, r.writes)
          IN r.result = "Ok" /\ Score(post, t) = Max(0, Score(env, t) - Abs(d))

\* C6 (amended): update_reputation by the stored admin on an existing profile
\* with score s and a delta d <= 0 succeeds; the new score is max(0, s - |d|)
\* for every d other than I64_MIN, and s itself for d = I64_MIN.
C6_NonPositiveDelta ==
  LET env == Env(timestamp) IN
    has(env.instance, Admin) =>
      \A t \in Profiles(env), d \in Deltas :
        d <= 0 =>
          LET r == update_reputation(env, env.instance[Admin], t, d, TRUE)
              s == Score(env, t)
              post == After(env, r.writes)
          IN /\ r.result = "Ok"
             /\ Score(post, t) = IF d = I64_MIN THEN s ELSE Max(0, s - Abs(d))

\* One profile at score 0, where any decrease clamps, and one at a positive
\* score, where a decrease by I64_MIN and a decrease by 1 differ.
C6_Witness ==
  LET env == Env(timestamp) IN
  /\ Profiles(env) = Addresses
  /\ Score(env, "GA") = 0
  /\ Score(env, "GB") = U64_MAX
  /\ LET r == update_reputation(env, env.instance[Admin], "GA", 0 - 1, TRUE) IN
     r.result = "Ok" /\ Score(After(env, r.writes), "GA") = 0
  /\ LET r == update_reputation(env, env.instance[Admin], "GB", I64_MIN, TRUE) IN
     r.result = "Ok" /\ Score(After(env, r.writes), "GB") = U64_MAX

\* C7: update_contributor(address, h) for an address whose stored handle
\* already is h (the call carrying address's authorization) succeeds and
\* leaves the whole state unchanged, and so does the same call made again.
C7_NoOpUpdate ==
  LET env == Env(timestamp) IN
    \A a \in Profiles(env) :
      LET h == Handle(env, a)
          r == update_contributor(env, a, h, TRUE)
          post == After(env, r.writes)
          r2 == update_contributor(post, a, h, TRUE)
      IN /\ r.result = "Ok"
         /\ post = env
         /\ r2.result = "Ok"
         /\ After(post, r2.writes) = post

\* Both identities registered: a no-op update of GA rewrites GA's profile and
\* index entry beside GB's.
C7_Witness ==
  LET env == Env(timestamp) IN
  /\ Profiles(env) = Addresses
  /\ Handle(env, "GA") = "alice"
  /\ Score(env, "GA") = 2
  /\ LET r == update_contributor(env, "GA", "alice", TRUE) IN
     r.result = "Ok" /\ Len(r.writes) = 2

\* C8: the first initialize(a) stores a as admin; every later initialize
\* fails with AlreadyInitialized and leaves the stored admin alone; a stored
\* admin is never unset, and its value changes only in a step that is a
\* successful set_admin called by the admin stored before the step.
C8_InitializeOnce ==
  /\ [](\A now \in Times :
          LET env == Env(now) IN
          \A a \in Addresses, auth \in BOOLEAN :
            LET r == initialize(env, a, auth)
                post == After(env, r.writes)
            IN IF has(env.instance, Admin)
               THEN r.result = "AlreadyInitialized" /\ post.instance = env.instance
               ELSE auth => (r.result = "Ok" /\ get(post.instance, Admin) = Some(a)))
  /\ [][has(instance, Admin) =>
          /\ has(instance', Admin)
          /\ instance'[Admin] # instance[Admin] =>
               \E new_admin \in Addresses, now \in Times :
                 LET r == set_admin(Env(now), instance[Admin], new_admin, TRUE) IN
                 /\ r.result = "Ok"
                 /\ instance'[Admin] = new_admin
                 /\ Commit(Env(now), r)]_vars

\* The admin role went from GB to GA in the latest call, and initialize is
\* refused there.
C8_Witness ==
  LET env == Env(timestamp) IN
  /\ events = <<AdminChangedEvent("GB", "GA")>>
  /\ get(instance, Admin) = Some("GA")
  /\ initialize(env, "GB", TRUE).result = "AlreadyInitialized"

\* C9: a successful set_admin(current_admin, new_admin) first stores
\* new_admin and then publishes AdminChanged{old_admin = current_admin,
\* new_admin}; on the state it leaves, get_admin returns new_admin,
\* update_reputation, set_admin and upgrade called by the old admin fail with
\* Unauthorized when it differs from new_admin, and the same calls by
\* new_admin pass the admin check.  In every reachable state whose latest
\* call published AdminChanged, the stored admin is the event's new_admin.
C9_SetAdmin ==
  /\ (Len(events) = 1 /\ events[1].name = "AdminChanged") =>
       get_admin(Env(timestamp)).ret = Some(events[1].new_admin)
  /\ LET env == Env(timestamp) IN
       has(env.instance, Admin) =>
         \A new_admin \in Addresses, auth \in BOOLEAN :
           LET old_admin == env.instance[Admin]
               r == set_admin(env, old_admin, new_admin, auth)
               post == After(env, r.writes)
           IN r.result = "Ok" =>
                /\ r.writes = <<SetWrite("instance", Admin, new_admin),
                                PublishWrite(AdminChangedEvent(old_admin, new_admin))>>
                /\ post.events = <<AdminChangedEvent(old_admin, new_admin)>>
                /\ get_admin(post).result = "Ok"
                /\ get_admin(post).ret = Some(new_admin)
                /\ \A t \in Addresses, d \in Deltas, auth2 \in BOOLEAN :
                     /\ old_admin # new_admin =>
                          update_reputation(post, old_admin, t, d, auth2).result = "Unauthorized"
                     /\ update_reputation(post, new_admin, t, d, auth2).result
                          \notin {"Unauthorized", "NotInitialized"}
                /\ \A b \in Addresses, auth2 \in BOOLEAN :
                     /\ old_admin # new_admin =>
                          set_admin(post, old_admin, b, auth2).result = "Unauthorized"
                     /\ set_admin(post, new_admin, b, auth2).result
                          \notin {"Unauthorized", "NotInitialized"}
                /\ \A w \in WasmHashes, auth2 \in BOOLEAN :
                     /\ old_admin # new_admin =>
                          upgrade(post, old_admin, w, auth2).result = "Unauthorized"
                     /\ upgrade(post, new_admin, w, auth2).result
                          \notin {"Unauthorized", "NotInitialized"}

\* The latest call transferred the role from GA to GB: GA is refused and GB
\* is accepted.
C9_Witness ==
  LET env == Env(timestamp) IN
  /\ events = <<AdminChangedEvent("GA", "GB")>>
  /\ get_admin(env).ret = Some("GB")
  /\ Profiles(env) = {"GA"}
  /\ update_reputation(env, "GA", "GA", 1, TRUE).result = "Unauthorized"
  /\ update_reputation(env, "GB", "GA", 1, TRUE).result = "Ok"
  /\ upgrade(env, "GB", "w1", TRUE).result = "Ok"

\* C10: a successful register_contributor(address, handle) adds exactly the
\* profile {address, handle, reputation_score 0, registered at the ledger
\* timestamp of the call} and the index entry handle -> address, both new,
\* and changes no other profile, no other index entry and not the admin.
C10_RegisterEffect ==
  \A now \in Times :
    LET env == Env(now) IN
    \A a \in Addresses, h \in Handles, auth \in BOOLEAN :
      LET r == register_contributor(env, a, h, auth)
          post == After(env, r.writes)
      IN r.result = "Ok" =>
           /\ ~has(env.persistent, Contributor(a))
           /\ ~has(env.persistent, GitHubIndex(h))
           /\ DOMAIN post.persistent =
                (DOMAIN env.persistent) \cup {Contributor(a), GitHubIndex(h)}
           /\ post.persistent[Contributor(a)] =
                [address |-> a, github_handle |-> h, reputation_score |-> 0,
                 registered_timestamp |-> now]
           /\ post.persistent[GitHubIndex(h)] = a
           /\ \A k \in DOMAIN env.persistent : post.persistent[k] = env.persistent[k]
           /\ post.instance = env.instance
           /\ post.events = <<>>
           /\ post.wasm = env.wasm

\* GB was registered at ledger time 1 beside GA, registered at time 0 and
\* since credited.
C10_Witness ==
  LET env == Env(timestamp) IN
  /\ Profiles(env) = Addresses
  /\ env.persistent[Contributor("GB")] =
       [address |-> "GB", github_handle |-> "bob", reputation_score |-> 0,
        registered_timestamp |-> 1]
  /\ env.persistent[Contributor("GA")] =
       [address |-> "GA", github_handle |-> "alice", reputation_score |-> 1,
        registered_timestamp |-> 0]
  /\ env.persistent[GitHubIndex("bob")] = "GB"

\* ------------------------------------------------- directory specification
\* The directory and its index on their own: registration, handle change,
\* reputation and the reads, with one more handle than identities, so that a
\* handle can change while the other identity is registered.  The admin is
\* whoever initialize stored; no transfer, no upgrade.
DirectoryHandles == Handles \cup {"carol"}

DirectoryRegister ==
  \E address \in Addresses, github_handle \in DirectoryHandles,
     authorized \in BOOLEAN, now \in Times :
    Commit(Env(now), register_contributor(Env(now), address, github_handle, authorized))

DirectoryUpdate ==
  \E address \in Addresses, github_handle \in DirectoryHandles,
     authorized \in BOOLEAN, now \in Times :
    Commit(Env(now), update_contributor(Env(now), address, github_handle, authorized))

DirectoryLookup ==
  \E github_handle \in DirectoryHandles, now \in Times :
    Commit(Env(now), get_contributor_by_github(Env(now), github_handle))

DirectoryNext ==
  \/ Initialize
  \/ DirectoryRegister
  \/ DirectoryUpdate
  \/ UpdateReputation
  \/ GetReputation
  \/ GetContributor
  \/ DirectoryLookup

SpecDirectory == Init /\ [][DirectoryNext]_vars

\* C11: register_contributor returns the error of the first failing check in
\* the order initialized, authorization, non-empty handle, no existing
\* profile, handle not claimed by a different address, and Ok when none
\* fails.
C11_RegisterCheckOrder ==
  \A now \in Times :
    LET env == Env(now) IN
    \A a \in Addresses, h \in DirectoryHandles, auth \in BOOLEAN :
      register_contributor(env, a, h, auth).result =
        IF ~has(env.instance, Admin) THEN "NotInitialized"
        ELSE IF ~auth THEN "AuthTrap"
        ELSE IF h = "" THEN "InvalidGitHubHandle"
        ELSE IF a \in Profiles(env) THEN "ContributorAlreadyExists"
        ELSE IF \E b \in Addresses \ {a} : get(env.persistent, GitHubIndex(h)) = Some(b)
             THEN "GitHubHandleTaken"
        ELSE "Ok"

\* GA is registered and bob is claimed by GB: registering GA again violates
\* two or three preconditions at once.
C11_Witness ==
  LET env == Env(timestamp) IN
  /\ Profiles(env) = Addresses
  /\ Handle(env, "GB") = "bob"
  /\ register_contributor(env, "GA", "bob", TRUE).result = "ContributorAlreadyExists"
  /\ register_contributor(env, "GA", "", TRUE).result = "InvalidGitHubHandle"
  /\ register_contributor(env, "GA", "", FALSE).result = "AuthTrap"

\* C12: get_contributor_by_github(h) returns the profile of the identity
\* whose current handle is h and fails with ContributorNotFound when no
\* profile has handle h; after update_contributor changed X's handle from h1
\* to h2, the lookup of h1 fails and the lookup of h2 returns X's profile;
\* an index entry whose identity has no profile gives ContributorNotFound.
C12_LookupByHandle ==
  LET env == Env(timestamp) IN
  /\ \A h \in DirectoryHandles :
       LET r == get_contributor_by_github(env, h) IN
       IF \E a \in Profiles(env) : Handle(env, a) = h
       THEN /\ r.result = "Ok"
            /\ \E a \in Profiles(env) :
                 Handle(env, a) = h /\ r.ret = Some(env.persistent[Contributor(a)])
       ELSE r.result = "ContributorNotFound" /\ r.ret = None
  /\ \A X \in Profiles(env), h2 \in DirectoryHandles :
       LET h1 == Handle(env, X)
           r == update_contributor(env, X, h2, TRUE)
           post == After(env, r.writes)
       IN (r.result = "Ok" /\ h1 # h2) =>
            /\ get_contributor_by_github(post, h1).result = "ContributorNotFound"
            /\ get_contributor_by_github(post, h2).result = "Ok"
            /\ get_contributor_by_github(post, h2).ret =
                 Some([env.persistent[Contributor(X)] EXCEPT !.github_handle = h2])
  /\ \A a \in Profiles(env) :
       LET dangling == [env EXCEPT !.persistent = StoreRemove(@, Contributor(a))] IN
       get_contributor_by_github(dangling, Handle(env, a)).result = "ContributorNotFound"

\* GA holds carol beside GB: carol resolves to GA's profile, alice to none,
\* and GA can still move to alice.
C12_Witness ==
  LET env == Env(timestamp) IN
  /\ Profiles(env) = Addresses
  /\ Handle(env, "GA") = "carol"
  /\ Handle(env, "GB") = "bob"
  /\ get_contributor_by_github(env, "carol").ret = Some(env.persistent[Contributor("GA")])
  /\ get_contributor_by_github(env, "alice").result = "ContributorNotFound"
  /\ update_contributor(env, "GA", "alice", TRUE).result = "Ok"

\* Across a step: a profile that exists stays, with its identity and its
\* registered_timestamp; a profile that appears carries its identity and the
\* ledger timestamp of the step.
ProfilesPersist ==
  \A a \in Addresses :
    /\ has(persistent, Contributor(a)) =>
         /\ has(persistent', Contributor(a))
         /\ persistent'[Contributor(a)].address = persistent[Contributor(a)].address
         /\ persistent'[Contributor(a)].registered_timestamp =
              persistent[Contributor(a)].registered_timestamp
    /\ (~has(persistent, Contributor(a)) /\ has(persistent', Contributor(a))) =>
         /\ persistent'[Contributor(a)].address = a
         /\ persistent'[Contributor(a)].registered_timestamp = timestamp'

\* C13 as stated: a registered profile is never deleted and keeps its
\* identity and registered_timestamp; get_contributor succeeds for it; any
\* further register_contributor for its address fails with
\* ContributorAlreadyExists and writes nothing.
C13_Original ==
  /\ [](LET env == Env(timestamp) IN
        \A a \in Profiles(env), h \in DirectoryHandles :
          /\ get_contributor(env, a).result = "Ok"
          /\ register_contributor(env, a, h, TRUE).result = "ContributorAlreadyExists"
          /\ register_contributor(env, a, h, TRUE).writes = <<>>)
  /\ [][ProfilesPersist]_vars

\* C13 (amended): a registered profile is never deleted and keeps its
\* identity and registered_timestamp; get_contributor succeeds for it; any
\* further register_contributor for its address fails and writes nothing,
\* with ContributorAlreadyExists when the handle is not empty and with
\* InvalidGitHubHandle when it is.
C13_ProfilesPersist ==
  /\ [](LET env == Env(timestamp) IN
        \A a \in Profiles(env), h \in DirectoryHandles :
          /\ get_contributor(env, a).result = "Ok"
          /\ get_contributor(env, a).ret[1].address = a
          /\ register_contributor(env, a, h, TRUE).result =
               IF h = "" THEN "InvalidGitHubHandle" ELSE "ContributorAlreadyExists"
          /\ register_contributor(env, a, h, TRUE).writes = <<>>)
  /\ [][ProfilesPersist]_vars

\* GA, registered at ledger time 0, is still there at time 1 with a changed
\* handle and a changed score; registering GA again is refused.
C13_Witness ==
  LET env == Env(timestamp) IN
  /\ timestamp = 1
  /\ Profiles(env) = {"GA"}
  /\ env.persistent[Contributor("GA")] =
       [address |-> "GA", github_handle |-> "carol", reputation_score |-> 2,
        registered_timestamp |-> 0]
  /\ register_contributor(env, "GA", "alice", TRUE).result = "ContributorAlreadyExists"
  /\ register_contributor(env, "GA", "", TRUE).result = "InvalidGitHubHandle"

\* The call fails with error e and writes nothing.
FailsWith(r, e) == r.result = e /\ r.writes = <<>>

\* C14 as stated: while no admin is stored, register_contributor,
\* update_contributor, update_reputation, get_reputation, get_contributor,
\* get_contributor_by_github, get_admin, upgrade and set_admin all fail with
\* NotInitialized, whatever their arguments, and the store stays empty.
C14_Original ==
  LET env == Env(timestamp) IN
  ~has(env.instance, Admin) =>
    /\ env.persistent = <<>>
    /\ \A a \in Addresses, h \in Handles, auth \in BOOLEAN :
         /\ FailsWith(register_contributor(env, a, h, auth), "NotInitialized")
         /\ FailsWith(update_contributor(env, a, h, auth), "NotInitialized")
    /\ \A a \in Addresses, t \in Addresses, d \in Deltas, auth \in BOOLEAN :
         FailsWith(update_reputation(env, a, t, d, auth), "NotInitialized")
    /\ \A a \in Addresses, w \in WasmHashes, auth \in BOOLEAN :
         FailsWith(upgrade(env, a, w, auth), "NotInitialized")
    /\ \A a \in Addresses, b \in Addresses, auth \in BOOLEAN :
         FailsWith(set_admin(env, a, b, auth), "NotInitialized")
    /\ FailsWith(get_admin(env), "NotInitialized")
    /\ \A a \in Addresses :
         /\ FailsWith(get_reputation(env, a), "NotInitialized")
         /\ FailsWith(get_contributor(env, a), "NotInitialized")
    /\ \A h \in Handles :
         FailsWith(get_contributor_by_github(env, h), "NotInitialized")

\* C14 (amended): while no admin is stored, register_contributor,
\* update_contributor, update_reputation, get_admin, upgrade and set_admin
\* fail with NotInitialized before any other check, whatever their arguments;
\* get_reputation, get_contributor and get_contributor_by_github do not look
\* at the admin and fail with ContributorNotFound; the store stays empty.
C14_UninitializedCalls ==
  LET env == Env(timestamp) IN
  ~has(env.instance, Admin) =>
    /\ env.persistent = <<>>
    /\ \A a \in Addresses, h \in Handles, auth \in BOOLEAN :
         /\ FailsWith(register_contributor(env, a, h, auth), "NotInitialized")
         /\ FailsWith(update_contributor(env, a, h, auth), "NotInitialized")
    /\ \A a \in Addresses, t \in Addresses, d \in Deltas, auth \in BOOLEAN :
         FailsWith(update_reputation(env, a, t, d, auth), "NotInitialized")
    /\ \A a \in Addresses, w \in WasmHashes, auth \in BOOLEAN :
         FailsWith(upgrade(env, a, w, auth), "NotInitialized")
    /\ \A a \in Addresses, b \in Addresses, auth \in BOOLEAN :
         FailsWith(set_admin(env, a, b, auth), "NotInitialized")
    /\ FailsWith(get_admin(env), "NotInitialized")
    /\ \A a \in Addresses :
         /\ FailsWith(get_reputation(env, a), "ContributorNotFound")
         /\ FailsWith(get_contributor(env, a), "ContributorNotFound")
    /\ \A h \in Handles :
         FailsWith(get_contributor_by_github(env, h), "ContributorNotFound")

\* No admin is stored although calls have been made: the ledger has moved on
\* and the store is still empty.
C14_Witness ==
  /\ ~has(instance, Admin)
  /\ timestamp = 1
  /\ persistent = <<>>
  /\ register_contributor(Env(timestamp), "GA", "", FALSE).result = "NotInitialized"
  /\ get_contributor(Env(timestamp), "GA").result = "ContributorNotFound"

\* C15: a successful upgrade(caller, new_code_hash) has caller equal to the
\* stored admin, asks the deployer for new_code_hash, then publishes exactly
\* one Upgraded{admin = caller, new_code_hash}, and leaves the stored admin,
\* every profile and every index entry unchanged.  In every reachable state
\* whose latest call published Upgraded, the event names the stored admin and
\* the code hash last requested.
C15_UpgradeEffect ==
  /\ (Len(events) = 1 /\ events[1].name = "Upgraded") =>
       /\ get(instance, Admin) = Some(events[1].admin)
       /\ wasm = events[1].new_wasm_hash
  /\ LET env == Env(timestamp) IN
     \A caller \in Addresses, w \in WasmHashes, auth \in BOOLEAN :
       LET r == upgrade(env, caller, w, auth)
           post == After(env, r.writes)
       IN r.result = "Ok" =>
            /\ get(env.instance, Admin) = Some(caller)
            /\ auth
            /\ r.writes = <<UpdateWasmWrite(w), PublishWrite(UpgradedEvent(caller, w))>>
            /\ post.wasm = w
            /\ post.events = <<UpgradedEvent(caller, w)>>
            /\ post.instance = env.instance
            /\ post.persistent = env.persistent

\* The latest call was GB's upgrade to w2, made with both profiles in place.
C15_Witness ==
  /\ events = <<UpgradedEvent("GB", "w2")>>
  /\ wasm = "w2"
  /\ get(instance, Admin) = Some("GB")
  /\ Profiles(Env(timestamp)) = Addresses

\* C16: update_reputation by the stored admin on an existing profile with
\* delta = I64_MIN succeeds and leaves the score, whatever it is, unchanged.
C16_MinDeltaIsNoOp ==
  LET env == Env(timestamp) IN
  \A t \in Profiles(env) :
    LET r == update_reputation(env, env.instance[Admin], t, I64_MIN, TRUE)
        post == After(env, r.writes)
    IN /\ r.result = "Ok"
       /\ Score(post, t) = Score(env, t)
       /\ post.persistent = env.persistent

\* A single profile one below the maximum score: I64_MIN leaves it there,
\* while a decrease by one lowers it.
C16_Witness ==
  LET env == Env(timestamp) IN
  /\ Profiles(env) = {"GB"}
  /\ Score(env, "GB") = U64_MAX - 1
  /\ LET r == update_reputation(env, env.instance[Admin], "GB", I64_MIN, TRUE) IN
     r.result = "Ok" /\ Score(After(env, r.writes), "GB") = U64_MAX - 1
  /\ LET r == update_reputation(env, env.instance[Admin], "GB", 0 - 1, TRUE) IN
     r.result = "Ok" /\ Score(After(env, r.writes), "GB") = U64_MAX - 2

\* C17: a successful update_contributor(address, new_handle) changes only the
\* handle: the target profile keeps its address, score and registration
\* time; the persistent store afterwards is the old one with the target's
\* github_handle replaced, the old index entry gone when the handle differs,
\* and new_handle -> address present; every other key keeps its value; the
\* instance store (the admin) and the installed code are unchanged and no
\* event is published.
C17_UpdateFrame ==
  LET env == Env(timestamp) IN
  \A a \in Addresses, h \in DirectoryHandles :
    LET r == update_contributor(env, a, h, TRUE)
        post == After(env, r.writes)
        old == env.persistent[Contributor(a)]
    IN r.result = "Ok" =>
         /\ post.persistent[Contributor(a)] = [old EXCEPT !.github_handle = h]
         /\ post.persistent[Contributor(a)].address = old.address
         /\ post.persistent[Contributor(a)].reputation_score = old.reputation_score
         /\ post.persistent[Contributor(a)].registered_timestamp = old.registered_timestamp
         /\ DOMAIN post.persistent =
              (DOMAIN env.persistent \ {GitHubIndex(old.github_handle)})
                \cup {GitHubIndex(h)}
         /\ post.persistent[GitHubIndex(h)] = a
         /\ \A k \in DOMAIN post.persistent \ {Contributor(a), GitHubIndex(h)} :
              post.persistent[k] = env.persistent[k]
         /\ post.instance = env.instance
         /\ post.wasm = env.wasm
         /\ post.events = <<>>

\* Both identities are registered, GA has a positive score, and GA can move
\* to a handle nobody holds.
C17_Witness ==
  LET env == Env(timestamp) IN
  /\ Profiles(env) = Addresses
  /\ Score(env, "GA") > 0
  /\ Handle(env, "GA") = "alice"
  /\ Handle(env, "GB") = "bob"
  /\ update_contributor(env, "GA", "carol", TRUE).result = "Ok"

\* C18: on an initialized contract, with the authorization of address given,
\* update_contributor fails with InvalidGitHubHandle when new_handle is
\* empty (profile or not), else with ContributorNotFound when address has no
\* profile, else with GitHubHandleTaken when the index maps new_handle to
\* another identity, and succeeds otherwise (no index entry, or the entry is
\* address itself).  Every failure writes nothing.
C18_UpdateErrorOrder ==
  LET env == Env(timestamp) IN
  has(env.instance, Admin) =>
    \A a \in Addresses, h \in DirectoryHandles :
      LET r == update_contributor(env, a, h, TRUE)
          entry == get(env.persistent, GitHubIndex(h))
      IN IF h = "" THEN FailsWith(r, "InvalidGitHubHandle")
         ELSE IF ~has(env.persistent, Contributor(a))
              THEN FailsWith(r, "ContributorNotFound")
         ELSE IF entry # None /\ entry # Some(a)
              THEN FailsWith(r, "GitHubHandleTaken")
         ELSE r.result = "Ok"

\* Only GB is registered: GA with an empty handle gets InvalidGitHubHandle,
\* GA with any other handle ContributorNotFound; GB cannot be refused a
\* handle, its own included.
C18_Witness ==
  LET env == Env(timestamp) IN
  /\ Profiles(env) = {"GB"}
  /\ Handle(env, "GB") = "carol"
  /\ update_contributor(env, "GA", "", TRUE).result = "InvalidGitHubHandle"
  /\ update_contributor(env, "GA", "carol", TRUE).result = "ContributorNotFound"
  /\ update_contributor(env, "GB", "carol", TRUE).result = "Ok"
  /\ update_contributor(env, "GB", "alice", TRUE).result = "Ok"

\* the persistent store after the first n writes of a call
PersistentAfter(env, writes, n) ==
  After(env, SubSeq(writes, 1, n)).persistent

\* positions in a write sequence of the writes of one kind to one key
Positions(writes, op, key) ==
  {i \in 1 .. Len(writes) : writes[i].op = op /\ writes[i].key = key}

\* C19: in a successful update_contributor, seen as its sequence of store
\* writes, the old index entry is removed exactly when new_handle differs
\* from the stored handle, and then as the first write, before the write of
\* the new index entry, which is the last write; with an unchanged handle
\* nothing is removed and the entry handle -> address is in the store after
\* every prefix of the writes.
C19_RemovalBeforeWrite ==
  LET env == Env(timestamp) IN
  \A a \in Addresses, h \in DirectoryHandles :
    LET r == update_contributor(env, a, h, TRUE)
        old == Handle(env, a)
        removals == {i \in 1 .. Len(r.writes) : r.writes[i].op = "remove"}
    IN r.result = "Ok" =>
         /\ Positions(r.writes, "set", GitHubIndex(h)) = {Len(r.writes)}
         /\ h # old =>
              /\ removals = {1}
              /\ r.writes[1] = RemoveWrite("persistent", GitHubIndex(old))
              /\ 1 < Len(r.writes)
         /\ h = old =>
              /\ removals = {}
              /\ \A n \in 0 .. Len(r.writes) :
                   get(PersistentAfter(env, r.writes, n), GitHubIndex(h)) = Some(a)

\* GB holds "alice": re-submitting "alice" is a call of two writes without a
\* removal, moving to "bob" is a call of three writes that starts with the
\* removal of the entry for "alice".
C19_Witness ==
  LET env == Env(timestamp) IN
  /\ Profiles(env) = {"GB"}
  /\ Handle(env, "GB") = "alice"
  /\ Len(update_contributor(env, "GB", "alice", TRUE).writes) = 2
  /\ Len(update_contributor(env, "GB", "bob", TRUE).writes) = 3
  /\ update_contributor(env, "GB", "bob", TRUE).writes[1] =
       RemoveWrite("persistent", GitHubIndex("alice"))

\* the profiles present before and after a call whose score differs
ScoresChanged(env, post) ==
  {a \in Profiles(env) \cap Profiles(post) : Score(post, a) # Score(env, a)}

\* a call that leaves every score as it was
KeepsScores(env, r) ==
  r.writes = <<>> \/ ScoresChanged(env, After(env, r.writes)) = {}

\* C20: across any single call, a profile's score differs afterwards only if
\* the call is a successful update_reputation whose caller is the admin
\* stored at the time of the call, was authenticated, and whose target is
\* the one changed profile; a successful update_reputation leaves the
\* target's other fields, every other persistent entry, the instance store,
\* the installed code and the events as they were.
C20_ScoresOnlyByAdmin ==
  LET env == Env(timestamp) IN
  /\ \A a \in Addresses, auth \in BOOLEAN :
       /\ KeepsScores(env, initialize(env, a, auth))
       /\ \A h \in Handles :
            /\ KeepsScores(env, register_contributor(env, a, h, auth))
            /\ KeepsScores(env, update_contributor(env, a, h, auth))
       /\ \A b \in Addresses : KeepsScores(env, set_admin(env, a, b, auth))
       /\ \A w \in WasmHashes : KeepsScores(env, upgrade(env, a, w, auth))
       /\ KeepsScores(env, get_contributor(env, a))
       /\ KeepsScores(env, get_reputation(env, a))
  /\ \A h \in Handles : KeepsScores(env, get_contributor_by_github(env, h))
  /\ KeepsScores(env, get_admin(env))
  /\ \A admin \in Addresses, t \in Addresses, delta \in Deltas, auth \in BOOLEAN :
       LET r == update_reputation(env, admin, t, delta, auth)
           post == After(env, r.writes)
       IN /\ ScoresChanged(env, post) # {} =>
               /\ r.result = "Ok"
               /\ get(env.instance, Admin) = Some(admin)
               /\ auth
               /\ ScoresChanged(env, post) = {t}
          /\ r.result = "Ok" =>
               /\ post.persistent =
                    [env.persistent EXCEPT ![Contributor(t)].reputation_score =
                       Score(post, t)]
               /\ post.instance = env.instance
               /\ post.wasm = env.wasm
               /\ post.events = <<>>
          /\ r.result # "Ok" => r.writes = <<>>

\* Both identities have a profile and a score strictly inside the range; the
\* admin raises the other identity's score by one and nothing else moves,
\* while the same call by the other identity is refused.
C20_Witness ==
  LET env == Env(timestamp) IN
  /\ get(env.instance, Admin) = Some("GA")
  /\ Profiles(env) = Addresses
  /\ Score(env, "GA") = 2
  /\ Score(env, "GB") = 1
  /\ LET r == update_reputation(env, "GA", "GB", 1, TRUE) IN
       /\ r.result = "Ok"
       /\ ScoresChanged(env, After(env, r.writes)) = {"GB"}
       /\ Score(After(env, r.writes), "GB") = 2
  /\ update_reputation(env, "GB", "GB", 1, TRUE).result = "Unauthorized"

====
